---- MODULE Spec2Model ----
(***************************************************************************)
(* The batch dispatcher of imageResizer.py / folderResizer.py: argument    *)
(* resolution, the ./resized guard, the multiprocessing pool that runs one *)
(* ffmpeg invocation per image, and the scale expression handed to ffmpeg. *)
(* File names are sequences of one-character strings so that stem, suffix  *)
(* and glob matching are computed the way pathlib computes them.           *)
(***************************************************************************)
EXTENDS Integers, Sequences, FiniteSets

VARIABLES
    posix,        \* pathlib flavour: TRUE = PosixPath (glob is case-sensitive)
    toolPresent,  \* an ffmpeg executable is on PATH
    cores,        \* os.cpu_count(), the size Pool() takes
    entries,      \* names of the direct entries of the working directory
    outFiles,     \* names of the files inside ./resized
    command,      \* args.command: "folder", "image" or "none"
    argImages,    \* args.image (the explicit path list)
    pc,           \* position of main()
    images,       \* images_to_process
    resolvedBy,   \* the input-resolution branches that filled images
    ignored,      \* number printed by 'Ignoring K files' (NoPrint if not printed)
    found,        \* number printed by 'Found N images'   (NoPrint if not printed)
    mkdirCount,   \* successful mkdir calls of this run
    taskq,        \* the pool's task queue: chunks of job indices
    worker,       \* per pool worker: the jobs left of its chunk, the job in ffmpeg
    started,      \* per job index: number of ffmpeg processes started for it
    cmdLog,       \* the command lines built: job, input path, output name
    notices,      \* jobs whose 'Finished processing <name>' was printed
    failedJobs,   \* jobs whose ffmpeg process exited non-zero
    numberLeft,   \* MapResult._number_left: chunks not yet reported
    poolSuccess,  \* MapResult._success: no chunk raised
    summary,      \* number printed by 'Finished processing N files.'
    exitStatus,   \* exit status of the process (NoPrint while running)
    runNo,        \* how many invocations were made in this working directory
    startEntries, \* entries when this invocation began
    startOut,     \* outFiles when this invocation began
    prevExit,     \* exit status of the previous invocation
    prevFound,    \* number of inputs of the previous invocation
    iw, ih,       \* ffmpeg's iw, ih: width and height of the decoded input
    maxLen,       \* args.max_length as seen by the scale expression
    ow, oh,       \* width and height ffmpeg's scale filter settles on
    scaled        \* the scale filter has been configured

runVars == <<command, argImages, pc, images, resolvedBy, ignored, found,
             mkdirCount, taskq, worker, started, cmdLog, notices, failedJobs,
             numberLeft, poolSuccess, summary, exitStatus>>
envVars == <<posix, toolPresent, cores>>
fsVars == <<entries, outFiles>>
ghostVars == <<runNo, startEntries, startOut, prevExit, prevFound>>
scaleVars == <<iw, ih, maxLen, ow, oh, scaled>>
vars == <<runVars, envVars, fsVars, ghostVars, scaleVars>>

----------------------------------------------------------------------------
\* Bounds of the model.
MaxCores == 2
MaxArgs == 2
MaxRuns == 2
MaxDim == 6
MaxM == 4
LongLen == 5

\* What a print count holds before its line is printed.
NoPrint == 0 - 1

----------------------------------------------------------------------------
\* File names and paths.

JPG == <<"j", "p", "g">>
JPEG == <<"j", "p", "e", "g">>
Resized == <<"r", "e", "s", "i", "z", "e", "d">>
ResizedSuffix == <<"_">> \o Resized

NameA == <<"a", ".">> \o JPG
NameAUpper == <<"a", ".", "J", "P", "G">>
NameB == <<"b", ".">> \o JPEG
NameNotes == <<"n", ".", "t", "x", "t">>
NameX == <<"x", ".">> \o JPG
NameY == <<"y", ".">> \o JPG

\* What a directory of images may hold besides ./resized.
Names == {NameA, NameAUpper, NameB, NameNotes}

\* Paths a caller may list after 'image'.
ArgPaths == {[dir |-> "d1", name |-> NameX],
             [dir |-> "d2", name |-> NameX],
             [dir |-> ".", name |-> NameY]}

Lower(c) ==
    CASE c = "J" -> "j"
      [] c = "P" -> "p"
      [] c = "E" -> "e"
      [] c = "G" -> "g"
      [] OTHER -> c

LowerName(n) == [i \in 1..Len(n) |-> Lower(n[i])]

\* str.rfind('.') + 1: the last position of a dot, 0 when there is none.
RFindDot(n) ==
    IF \E i \in 1..Len(n) : n[i] = "."
    THEN CHOOSE i \in 1..Len(n) : n[i] = "." /\ \A j \in (i+1)..Len(n) : n[j] # "."
    ELSE 0

\* PurePath.suffix: the last dot and what follows it, unless the dot leads or ends the name.
Suffix(n) ==
    LET i == RFindDot(n)
    IN IF 1 < i /\ i < Len(n) THEN SubSeq(n, i, Len(n)) ELSE <<>>

\* PurePath.stem: the name without its suffix.
Stem(n) ==
    LET i == RFindDot(n)
    IN IF 1 < i /\ i < Len(n) THEN SubSeq(n, 1, i - 1) ELSE n

\* output_name: ./resized/<stem>_resized<suffix>; the directory of the input is dropped.
OutputName(p) == Stem(p.name) \o ResizedSuffix \o Suffix(p.name)

----------------------------------------------------------------------------
\* Directory scan.

\* A loop that also globs for the upper-case spelling.
ExtensionsWithUpper == <<JPG, <<"J", "P", "G">>, JPEG>>

\* The extensions main() globs for, in the order of its for loop.
Extensions == <<JPG, JPEG>>

\* Path.glob("*.<ext>") on one name: fnmatch, case-folded on the Windows flavour only.
Match(n, ext) ==
    LET pat == <<".">> \o ext
        tail == SubSeq(n, Len(n) - Len(pat) + 1, Len(n))
    IN /\ Len(n) >= Len(pat)
       /\ IF posix THEN tail = pat ELSE LowerName(tail) = LowerName(pat)

Glob(es, ext) == {n \in es : Match(n, ext)}

\* A directory listing comes in any order.
Orders(S) == {s \in [1..Cardinality(S) -> S] : {s[i] : i \in DOMAIN s} = S}

ScanPath(n) == [dir |-> ".", name |-> n]

\* images_to_process after the loop: one glob result after the other.
RECURSIVE ScanFrom(_, _)
ScanFrom(es, k) ==
    IF k > Len(Extensions) THEN {<<>>}
    ELSE {[i \in DOMAIN o |-> ScanPath(o[i])] \o rest :
             o \in Orders(Glob(es, Extensions[k])), rest \in ScanFrom(es, k + 1)}

\* len(list(root_folder.glob('*'))): every direct entry, hidden ones and ./resized included.
GlobAllCount(es) == Cardinality(es)

----------------------------------------------------------------------------
\* The scale expression and what ffmpeg's scale filter makes of it.

\* The comparison turned round: if(gt(ih,iw),max_length,-1).
WidthExprSwapped(w, h, m) == IF h > w THEN m ELSE -1

\* if(gt(iw,ih),max_length,-1)
WidthExpr(w, h, m) == IF w > h THEN m ELSE -1

\* if(gt(iw,ih),-1,max_length)
HeightExpr(w, h, m) == IF w > h THEN -1 ELSE m

\* Rounding to nearest of a*b/c, as the scale filter rescales the free side.
Rescale(a, b, c) == (2 * a * b + c) \div (2 * c)

\* A side given as -1 follows the other side so that the aspect ratio is kept.
OutW(w, h, m) ==
    LET ew == WidthExpr(w, h, m)
        eh == HeightExpr(w, h, m)
    IN IF ew < 0 /\ eh < 0 THEN w
       ELSE IF ew < 0 THEN Rescale(eh, w, h) ELSE ew

OutH(w, h, m) ==
    LET ew == WidthExpr(w, h, m)
        eh == HeightExpr(w, h, m)
    IN IF ew < 0 /\ eh < 0 THEN h
       ELSE IF eh < 0 THEN Rescale(OutW(w, h, m), h, w) ELSE eh

\* default of -m/--max-length
DefaultMaxLength == 1999

----------------------------------------------------------------------------
\* The pool.

\* A pool with one process more than there are cores.
PoolSizePlusOne == cores + 1

\* Pool(): processes defaults to os.cpu_count().
PoolSize == cores

\* Pool._map_async: chunksize, extra = divmod(len(iterable), len(pool) * 4).
ChunkSize(n, procs) ==
    IF n = 0 THEN 0
    ELSE (n \div (procs * 4)) + (IF n % (procs * 4) # 0 THEN 1 ELSE 0)

\* Slices that stop one job short of the end of the list.
ChunksDropLast(n, size) ==
    IF n <= 1 THEN <<>>
    ELSE [k \in 1..((n + size - 2) \div size) |->
             [j \in 1..(IF k * size <= n - 1 THEN size ELSE n - 1 - (k - 1) * size) |->
                 (k - 1) * size + j]]

\* Pool._get_tasks: consecutive slices of the job list.
Chunks(n, size) ==
    IF n = 0 THEN <<>>
    ELSE [k \in 1..((n + size - 1) \div size) |->
             [j \in 1..(IF k * size <= n THEN size ELSE n - (k - 1) * size) |->
                 (k - 1) * size + j]]

IdleWorker == [chunk |-> <<>>, running |-> 0]

\* subprocess.run(..., check=True).
CheckReturnCodeOn == TRUE

\* subprocess.run(...) without check=True: a non-zero return code raises nothing.
CheckReturnCode == FALSE

\* A dispatch that does not wait for the chunks (as map_async without get()).
JoinReadyEarly == TRUE

\* starmap() blocks until every chunk has reported.
JoinReady == numberLeft = 0

\* A directory creation that accepts an existing directory (exist_ok=True).
MkdirNeverRaises(es) == FALSE

\* os.mkdir raises FileExistsError when the name is taken.
MkdirRaises(es) == Resized \in es

\* An else branch that finds a path list whatever the subcommand.
HasImageAttrAlways(cmd) == TRUE

\* The else branch reads args.image, which only the 'image' subparser sets.
HasImageAttr(cmd) == cmd = "image"

Terminal == {"done", "exited", "crashed"}

----------------------------------------------------------------------------
\* Initial states: one invocation about to run in a working directory.

\* Names that a case-insensitive file system cannot hold side by side.
CaseClash(S) == \E a, b \in S : a # b /\ LowerName(a) = LowerName(b)

Digits == <<"1", "2", "3", "4", "5", "6", "7", "8", "9">>

\* A longer command line, 1.jpg 2.jpg ..., that makes starmap cut chunks of several jobs.
LongArgs == [i \in 1..LongLen |-> [dir |-> ".", name |-> <<Digits[i], ".">> \o JPG]]

\* argparse nargs="+": at least one path.
ArgLists == UNION {[1..n -> ArgPaths] : n \in 1..MaxArgs} \cup {LongArgs}

ArgChoices(cmd) == IF cmd = "image" THEN ArgLists ELSE {<<>>}

DirChoices(cmd) ==
    IF cmd = "folder"
    THEN {S \cup R : S \in {T \in SUBSET Names : posix \/ ~CaseClash(T)},
                     R \in {{}, {Resized}}}
    ELSE {{}, {Resized}}

\* The state main() starts from, whatever the command line and directory are.
FreshRun ==
    /\ pc = "start"
    /\ images = <<>>
    /\ resolvedBy = {}
    /\ ignored = NoPrint
    /\ found = NoPrint
    /\ mkdirCount = 0
    /\ taskq = <<>>
    /\ worker = <<>>
    /\ started = <<>>
    /\ cmdLog = {}
    /\ notices = {}
    /\ failedJobs = {}
    /\ numberLeft = 0
    /\ poolSuccess = TRUE
    /\ summary = NoPrint
    /\ exitStatus = NoPrint

NoScale ==
    /\ iw = 0 /\ ih = 0 /\ ow = 0 /\ oh = 0
    /\ maxLen = DefaultMaxLength
    /\ scaled = FALSE

Init ==
    /\ posix \in BOOLEAN
    /\ toolPresent \in BOOLEAN
    /\ cores \in 1..MaxCores
    /\ command \in {"folder", "image", "none"}
    /\ argImages \in ArgChoices(command)
    /\ entries \in DirChoices(command)
    /\ outFiles = {}
    /\ FreshRun
    /\ runNo = 1
    /\ startEntries = entries
    /\ startOut = outFiles
    /\ prevExit = NoPrint
    /\ prevFound = NoPrint
    /\ NoScale

----------------------------------------------------------------------------
\* main()

Crash ==
    /\ pc' = "crashed"
    /\ exitStatus' = 1

\* command == "folder": glob the working directory, print 'Ignoring' and 'Found'.
ResolveFolder ==
    /\ pc = "start"
    /\ command = "folder"
    /\ \E scan \in ScanFrom(entries, 1) :
          /\ images' = scan
          /\ ignored' = GlobAllCount(entries) - Len(scan)
          /\ found' = Len(scan)
    /\ resolvedBy' = resolvedBy \cup {"scan"}
    /\ pc' = "guard"
    /\ UNCHANGED <<command, argImages, mkdirCount, taskq, worker, started, cmdLog,
                   notices, failedJobs, numberLeft, poolSuccess, summary, exitStatus>>
    /\ UNCHANGED <<envVars, fsVars, ghostVars, scaleVars>>

\* else: take args.image (AttributeError when no subcommand was given), print 'Found'.
ResolveElse ==
    /\ pc = "start"
    /\ command # "folder"
    /\ IF HasImageAttr(command)
       THEN /\ images' = argImages
            /\ found' = Len(argImages)
            /\ resolvedBy' = resolvedBy \cup {"list"}
            /\ pc' = "guard"
            /\ UNCHANGED exitStatus
       ELSE /\ Crash
            /\ UNCHANGED <<images, found, resolvedBy>>
    /\ UNCHANGED <<command, argImages, ignored, mkdirCount, taskq, worker, started,
                   cmdLog, notices, failedJobs, numberLeft, poolSuccess, summary>>
    /\ UNCHANGED <<envVars, fsVars, ghostVars, scaleVars>>

\* try: mkdir("./resized") except FileExistsError: print(...); exit(1)
MkdirGuard ==
    /\ pc = "guard"
    /\ IF MkdirRaises(entries)
       THEN /\ pc' = "exited"
            /\ exitStatus' = 1
            /\ UNCHANGED <<entries, mkdirCount>>
       ELSE /\ entries' = entries \cup {Resized}
            /\ mkdirCount' = mkdirCount + 1
            /\ pc' = "pool"
            /\ UNCHANGED exitStatus
    /\ UNCHANGED <<command, argImages, images, resolvedBy, ignored, found, taskq,
                   worker, started, cmdLog, notices, failedJobs, numberLeft,
                   poolSuccess, summary>>
    /\ UNCHANGED <<envVars, outFiles, ghostVars, scaleVars>>

\* with Pool() as pool: pool.starmap(...) up to handing the chunks to the task queue.
PoolStart ==
    /\ pc = "pool"
    /\ worker' = [w \in 1..PoolSize |-> IdleWorker]
    /\ taskq' = Chunks(Len(images), ChunkSize(Len(images), PoolSize))
    /\ numberLeft' = Len(taskq')
    /\ started' = [i \in 1..Len(images) |-> 0]
    /\ pc' = "wait"
    /\ UNCHANGED <<command, argImages, images, resolvedBy, ignored, found, mkdirCount,
                   cmdLog, notices, failedJobs, poolSuccess, summary, exitStatus>>
    /\ UNCHANGED <<envVars, fsVars, ghostVars, scaleVars>>

\* A pool worker takes the next chunk off the task queue. Idle workers are alike:
\* the one with the lowest number stands for whichever of them gets the chunk.
WorkerTake(w) ==
    /\ pc = "wait"
    /\ w \in DOMAIN worker
    /\ worker[w] = IdleWorker
    /\ \A v \in 1..(w - 1) : worker[v] # IdleWorker
    /\ taskq # <<>>
    /\ worker' = [worker EXCEPT ![w].chunk = Head(taskq)]
    /\ taskq' = Tail(taskq)
    /\ UNCHANGED <<command, argImages, pc, images, resolvedBy, ignored, found,
                   mkdirCount, started, cmdLog, notices, failedJobs, numberLeft,
                   poolSuccess, summary, exitStatus>>
    /\ UNCHANGED <<envVars, fsVars, ghostVars, scaleVars>>

\* The chunk of worker w ends by an exception: the rest of it is dropped and the
\* failure is what the chunk reports.
ChunkRaises(w) ==
    /\ worker' = [worker EXCEPT ![w] = IdleWorker]
    /\ poolSuccess' = FALSE
    /\ numberLeft' = numberLeft - 1

\* _process_image up to subprocess.run: build the command, start ffmpeg
\* (FileNotFoundError when there is no such executable).
WorkerStartJob(w) ==
    /\ pc = "wait"
    /\ w \in DOMAIN worker
    /\ worker[w].chunk # <<>>
    /\ worker[w].running = 0
    /\ LET i == Head(worker[w].chunk)
       IN /\ cmdLog' = cmdLog \cup {[job |-> i, input |-> images[i],
                                      output |-> OutputName(images[i])]}
          /\ IF toolPresent
             THEN /\ started' = [started EXCEPT ![i] = @ + 1]
                  /\ worker' = [worker EXCEPT ![w].running = i]
                  /\ UNCHANGED <<poolSuccess, numberLeft>>
             ELSE /\ ChunkRaises(w)
                  /\ UNCHANGED started
    /\ UNCHANGED <<command, argImages, pc, images, resolvedBy, ignored, found,
                   mkdirCount, taskq, notices, failedJobs, summary, exitStatus>>
    /\ UNCHANGED <<envVars, fsVars, ghostVars, scaleVars>>

\* ffmpeg exits (0 having written its output, or non-zero); subprocess.run returns
\* and the worker prints 'Finished processing <name>'.
ToolExit(w) ==
    /\ pc = "wait"
    /\ w \in DOMAIN worker
    /\ worker[w].running # 0
    /\ LET i == worker[w].running
           rest == Tail(worker[w].chunk)
       IN \E ok \in BOOLEAN :
             /\ outFiles' = IF ok THEN outFiles \cup {OutputName(images[i])} ELSE outFiles
             /\ failedJobs' = IF ok THEN failedJobs ELSE failedJobs \cup {i}
             /\ IF ~ok /\ CheckReturnCode
                THEN /\ ChunkRaises(w)
                     /\ UNCHANGED notices
                ELSE /\ notices' = notices \cup {i}
                     /\ worker' = [worker EXCEPT ![w] = [chunk |-> rest, running |-> 0]]
                     /\ numberLeft' = IF rest = <<>> THEN numberLeft - 1 ELSE numberLeft
                     /\ UNCHANGED poolSuccess
    /\ UNCHANGED <<command, argImages, pc, images, resolvedBy, ignored, found,
                   mkdirCount, taskq, started, cmdLog, summary, exitStatus>>
    /\ UNCHANGED <<envVars, entries, ghostVars, scaleVars>>

\* starmap returns (or re-raises a chunk's exception), the pool is torn down, and
\* main prints 'Finished processing N files.'
PoolJoin ==
    /\ pc = "wait"
    /\ JoinReady
    /\ worker' = <<>>
    /\ taskq' = <<>>
    /\ IF poolSuccess
       THEN /\ summary' = Len(images)
            /\ exitStatus' = 0
            /\ pc' = "done"
       ELSE /\ Crash
            /\ UNCHANGED summary
    /\ UNCHANGED <<command, argImages, images, resolvedBy, ignored, found, mkdirCount,
                   started, cmdLog, notices, failedJobs, numberLeft, poolSuccess>>
    /\ UNCHANGED <<envVars, fsVars, ghostVars, scaleVars>>

\* The user gives the same command line again in the same working directory.
Rerun ==
    /\ pc \in Terminal
    /\ runNo < MaxRuns
    /\ runNo' = runNo + 1
    /\ prevExit' = exitStatus
    /\ prevFound' = found
    /\ startEntries' = entries
    /\ startOut' = outFiles
    /\ pc' = "start"
    /\ images' = <<>>
    /\ resolvedBy' = {}
    /\ ignored' = NoPrint
    /\ found' = NoPrint
    /\ mkdirCount' = 0
    /\ taskq' = <<>>
    /\ worker' = <<>>
    /\ started' = <<>>
    /\ cmdLog' = {}
    /\ notices' = {}
    /\ failedJobs' = {}
    /\ numberLeft' = 0
    /\ poolSuccess' = TRUE
    /\ summary' = NoPrint
    /\ exitStatus' = NoPrint
    /\ UNCHANGED <<command, argImages, envVars, fsVars, scaleVars>>

RunStep ==
    \/ ResolveFolder
    \/ ResolveElse
    \/ MkdirGuard
    \/ PoolStart
    \/ \E w \in 1..(MaxCores + 1) : WorkerTake(w)
    \/ \E w \in 1..(MaxCores + 1) : WorkerStartJob(w)
    \/ \E w \in 1..(MaxCores + 1) : ToolExit(w)
    \/ PoolJoin

Next == RunStep \/ Rerun

Spec == Init /\ [][Next]_vars

\* Every step of a run that can be taken is taken: processes are scheduled and
\* every ffmpeg process ends. Whether the user starts another run is up to the user.
FairSpec == Spec /\ WF_vars(RunStep)

----------------------------------------------------------------------------
\* The scale filter on its own: one decoded image, one max_length.

ScaleInit ==
    /\ posix = TRUE
    /\ toolPresent = TRUE
    /\ cores = 1
    /\ command = "image"
    /\ argImages = <<[dir |-> ".", name |-> NameY]>>
    /\ entries = {}
    /\ outFiles = {}
    /\ FreshRun
    /\ runNo = 1
    /\ startEntries = entries
    /\ startOut = outFiles
    /\ prevExit = NoPrint
    /\ prevFound = NoPrint
    /\ iw \in 1..MaxDim
    /\ ih \in 1..MaxDim
    /\ maxLen \in (1..MaxM) \cup {DefaultMaxLength}
    /\ ow = 0
    /\ oh = 0
    /\ scaled = FALSE

\* ffmpeg evaluates the two expressions of scale=... on the decoded input.
ConfigureScale ==
    /\ ~scaled
    /\ iw > 0
    /\ ow' = OutW(iw, ih, maxLen)
    /\ oh' = OutH(iw, ih, maxLen)
    /\ scaled' = TRUE
    /\ UNCHANGED <<iw, ih, maxLen>>
    /\ UNCHANGED <<runVars, envVars, fsVars, ghostVars>>

ScaleNext == ConfigureScale

ScaleSpec == ScaleInit /\ [][ScaleNext]_vars

----------------------------------------------------------------------------
\* Properties.

Jobs == DOMAIN images

\* This run created ./resized, i.e. it passed the guard.
GuardPassed == mkdirCount = 1

\* Jobs whose ffmpeg process was started and has not returned.
InFlight == {i \in DOMAIN started : started[i] > 0 /\ i \notin notices}

NothingDispatched ==
    /\ cmdLog = {}
    /\ started = <<>>
    /\ worker = <<>>
    /\ taskq = <<>>

\* C1: when ./resized exists as the run begins, the run dispatches no job, builds no
\* command, leaves the directory and ./resized as they were, and (for 'folder' and
\* 'image') ends at the guard with exit status 1; a run that follows a run that
\* completed with status 0 always ends so.
C1_ExistingOutputDirStopsRun ==
    /\ Resized \in startEntries =>
          /\ NothingDispatched
          /\ entries = startEntries
          /\ outFiles = startOut
          /\ summary = NoPrint
          /\ (pc \in Terminal /\ command # "none" => pc = "exited" /\ exitStatus = 1)
    /\ pc = "exited" => Resized \in startEntries /\ exitStatus = 1
    /\ (runNo >= 2 /\ prevExit = 0) => Resized \in startEntries

\* A second 'folder' run after a first one that found no image and exited 0.
C1_Witness ==
    /\ runNo = 2
    /\ prevExit = 0
    /\ prevFound = 0
    /\ command = "folder"
    /\ pc = "exited"
    /\ exitStatus = 1

\* C2: the jobs of one run have pairwise distinct output names, so no two ffmpeg
\* processes running at the same time write the same file.
C2_DistinctOutputNames ==
    /\ \A i, j \in Jobs :
          (i # j /\ pc = "wait") => OutputName(images[i]) # OutputName(images[j])
    /\ \A i, j \in InFlight :
          i # j => OutputName(images[i]) # OutputName(images[j])

Abs(x) == IF x < 0 THEN 0 - x ELSE x
MaxOf(a, b) == IF a > b THEN a ELSE b
MinOf(a, b) == IF a < b THEN a ELSE b

IsJpegName(n) == LowerName(Suffix(n)) \in {<<".">> \o JPG, <<".">> \o JPEG}

\* C5: in folder mode the jobs are exactly the direct entries whose extension is a
\* case variant of jpg or jpeg.
C5_AllCaseVariantsDispatched ==
    (command = "folder" /\ pc # "start") =>
       {images[i].name : i \in Jobs} = {n \in startEntries : IsJpegName(n)}

\* C6: in folder mode 'Ignoring K files' prints the number of direct entries minus
\* the number of jobs, 'Found N images' the number of jobs, K >= 0, K + N is the
\* number of direct entries, and no entry is listed twice.
C6_IgnoredAndFoundCounts ==
    (command = "folder" /\ pc # "start") =>
       /\ found = Len(images)
       /\ ignored = Cardinality(startEntries) - Len(images)
       /\ ignored >= 0
       /\ ignored + found = Cardinality(startEntries)
       /\ \A i, j \in Jobs : i # j => images[i] # images[j]
       /\ \A i \in Jobs : images[i].name \in startEntries

\* The directory of a.jpg, b.jpeg and n.txt: 1 ignored, 2 found.
C6_Witness ==
    /\ command = "folder"
    /\ startEntries = {NameA, NameB, NameNotes}
    /\ ignored = 1
    /\ found = 2

\* C7 as stated: whatever goes wrong with a job's ffmpeg invocation (a missing
\* executable included), a run that passed the guard prints every job's notice and
\* the summary with the full count and exits with status 0.
C7_NoFailureEverSurfaces ==
    (pc \in Terminal /\ GuardPassed) =>
       /\ pc = "done"
       /\ exitStatus = 0
       /\ summary = Len(images)
       /\ notices = Jobs

\* C7 amended: a job whose ffmpeg process exits non-zero still gets its notice, and
\* when ffmpeg can be started (or there is no job) the run that passed the guard
\* prints every notice and the full summary and exits 0; when the executable is not
\* found and there is a job, no notice and no summary are printed and the run ends
\* with status 1.
C7_NonZeroExitsAreSilent ==
    /\ failedJobs \subseteq notices
    /\ (pc \in Terminal /\ GuardPassed /\ (toolPresent \/ images = <<>>)) =>
          /\ pc = "done"
          /\ exitStatus = 0
          /\ summary = Len(images)
          /\ notices = Jobs
    /\ (pc \in Terminal /\ GuardPassed /\ ~toolPresent /\ images # <<>>) =>
          /\ pc = "crashed"
          /\ exitStatus = 1
          /\ summary = NoPrint
          /\ notices = {}

\* A run that exits 0 although one of its several ffmpeg processes failed.
C7_Witness ==
    /\ pc = "done"
    /\ exitStatus = 0
    /\ failedJobs # {}
    /\ failedJobs # Jobs
    /\ notices = Jobs

C8_Order ==
    /\ mkdirCount <= 1
    /\ (cmdLog # {} \/ worker # <<>> \/ taskq # <<>> \/ started # <<>>) =>
          GuardPassed /\ Resized \in entries
    /\ summary # NoPrint =>
          /\ pc = "done"
          /\ summary = Len(images)
          /\ DOMAIN started = Jobs
          /\ \A i \in Jobs : started[i] = 1
          /\ notices = Jobs
          /\ InFlight = {}
          /\ taskq = <<>>

C9_ExactlyOneMode ==
    /\ Cardinality(resolvedBy) <= 1
    /\ (pc \in {"guard", "pool", "wait", "done", "exited"} \/ GuardPassed) =>
          Cardinality(resolvedBy) = 1
    /\ "scan" \in resolvedBy => command = "folder"
    /\ "list" \in resolvedBy => command = "image"
    /\ command = "none" =>
          /\ resolvedBy = {}
          /\ images = <<>>
          /\ found = NoPrint
          /\ mkdirCount = 0
          /\ entries = startEntries
          /\ NothingDispatched

\* The invocation without a subcommand has ended.
C9_Witness ==
    /\ command = "none"
    /\ pc = "crashed"
    /\ exitStatus = 1
    /\ Resized \notin entries

C10_Bound ==
    /\ Cardinality(InFlight) <= cores
    /\ worker # <<>> => Len(worker) = cores
    /\ \A w \in DOMAIN worker :
          worker[w].running # 0 => worker[w].running = Head(worker[w].chunk)
    /\ \A v, w \in DOMAIN worker :
          (v # w /\ worker[v].running # 0) => worker[v].running # worker[w].running

AllStarted ==
    /\ DOMAIN started = Jobs
    /\ \A i \in DOMAIN started : started[i] >= 1

====
